---- MODULE Spec2Model ----
(***************************************************************************)
(* Model of the clients-collection engine of the sync manager              *)
(* (components/sync_manager/src/clients): the Command catalog, the wire    *)
(* form of a client record, and Engine::sync run by two devices that share *)
(* one clients collection on the server.                                   *)
(***************************************************************************)
EXTENDS Integers, Sequences, FiniteSets, TLC

\* ------------------------------------------------------------------------
\* Bounds of the model.
\* ------------------------------------------------------------------------
\* Number of sync cycles the devices may start, all together.
MaxCycles == 3

\* ------------------------------------------------------------------------
\* Option<T>: None is the empty sequence, Some(x) the one-element sequence.
\* ------------------------------------------------------------------------
None == <<>>
Some(x) == <<x>>

\* The JSON literal null (distinct from every string the model uses).
JsonNull == "<null>"

\* ------------------------------------------------------------------------
\* clients/mod.rs
\* ------------------------------------------------------------------------
Command ==
    {"WipeLogins", "WipeHistory", "WipeBookmarks", "WipeAll",
     "ResetLogins", "ResetHistory", "ResetBookmarks", "ResetAll"}

\* Type::as_str
Type_as_str(t) ==
    CASE t = "Desktop" -> "desktop"
      [] t = "Mobile" -> "mobile"
      [] t = "Tablet" -> "tablet"

\* The two devices that run the engine, and their Settings.
Devices == {"A", "B"}

Settings(d) ==
    IF d = "A"
    THEN [client_id |-> "A", name |-> "phone", client_type |-> "Mobile",
          fxa_device_id |-> "fxaA"]
    ELSE [client_id |-> "B", name |-> "laptop", client_type |-> "Desktop",
          fxa_device_id |-> "fxaB"]

\* ------------------------------------------------------------------------
\* clients/record.rs: ClientCommand
\* ------------------------------------------------------------------------
\* self.args.get(0).map(|s| s.as_str())
FirstArg(args) == IF Len(args) >= 1 THEN Some(args[1]) ELSE None

as_command(c) ==
    CASE c.name = "wipeEngine" ->
            (CASE FirstArg(c.args) = Some("logins") -> Some("WipeLogins")
               [] FirstArg(c.args) = Some("history") -> Some("WipeHistory")
               [] FirstArg(c.args) = Some("bookmarks") -> Some("WipeBookmarks")
               [] OTHER -> None)
      [] c.name = "wipeAll" -> Some("WipeAll")
      [] c.name = "resetEngine" ->
            (CASE FirstArg(c.args) = Some("logins") -> Some("ResetLogins")
               [] FirstArg(c.args) = Some("history") -> Some("ResetHistory")
               [] FirstArg(c.args) = Some("bookmarks") -> Some("ResetBookmarks")
               [] OTHER -> None)
      [] c.name = "resetAll" -> Some("ResetAll")
      [] OTHER -> None

from_command(command, flow_id) ==
    LET na == CASE command = "WipeLogins" -> <<"wipeEngine", <<"passwords">>>>
                [] command = "WipeHistory" -> <<"wipeEngine", <<"history">>>>
                [] command = "WipeBookmarks" -> <<"wipeEngine", <<"bookmarks">>>>
                [] command = "WipeAll" -> <<"wipeAll", <<>>>>
                [] command = "ResetLogins" -> <<"resetEngine", <<"passwords">>>>
                [] command = "ResetHistory" -> <<"resetEngine", <<"history">>>>
                [] command = "ResetBookmarks" -> <<"resetEngine", <<"bookmarks">>>>
                [] command = "ResetAll" -> <<"resetAll", <<>>>>
    IN [name |-> na[1], args |-> na[2], flow_id |-> flow_id]

\* impl From<Command> for ClientCommand
From(command) == from_command(command, None)

from_command_with_flow_id(command, flow_id) == from_command(command, Some(flow_id))

\* ------------------------------------------------------------------------
\* clients/record.rs: the serde wire form.  A JSON object is a function
\* from the keys that are present to their values.
\* ------------------------------------------------------------------------
\* #[derive(Serialize)] for ClientCommand
SerCommandKeys(c) ==
    {"command", "args"} \cup (IF c.flow_id = None THEN {} ELSE {"flowId"})

SerializeCommand(c) ==
    [k \in SerCommandKeys(c) |->
        CASE k = "command" -> c.name
          [] k = "args" -> c.args
          [] k = "flowId" -> c.flow_id[1]]

\* #[derive(Deserialize)] for ClientCommand (unknown keys are ignored)
DeserializeCommand(j) ==
    [name |-> j["command"],
     args |-> IF "args" \in DOMAIN j THEN j["args"] ELSE <<>>,
     flow_id |-> IF "flowId" \in DOMAIN j /\ j["flowId"] # JsonNull
                 THEN Some(j["flowId"]) ELSE None]

MapSeq(s, F(_)) == [i \in 1..Len(s) |-> F(s[i])]

\* Option<String> field read with #[serde(default)]
OptField(j, k) ==
    IF k \in DOMAIN j /\ j[k] # JsonNull THEN Some(j[k]) ELSE None

\* Vec field read with #[serde(default)]
VecField(j, k) == IF k \in DOMAIN j THEN j[k] ELSE <<>>

\* #[derive(Serialize)] for Client
SerClientKeys(c) ==
    {"id", "name", "type"}
    \cup (IF c.commands = <<>> THEN {} ELSE {"commands"})
    \cup (IF c.fxa_device_id = None THEN {} ELSE {"fxaDeviceId"})
    \cup (IF c.version = None THEN {} ELSE {"version"})
    \cup (IF c.protocols = <<>> THEN {} ELSE {"protocols"})
    \cup (IF c.form_factor = None THEN {} ELSE {"formfactor"})
    \cup (IF c.os = None THEN {} ELSE {"os"})
    \cup (IF c.app_package = None THEN {} ELSE {"appPackage"})
    \cup (IF c.application = None THEN {} ELSE {"application"})
    \cup (IF c.device = None THEN {} ELSE {"device"})

SerializeClient(c) ==
    [k \in SerClientKeys(c) |->
        CASE k = "id" -> c.id
          [] k = "name" -> c.name
          [] k = "type" -> (IF c.typ = None THEN JsonNull ELSE c.typ[1])
          [] k = "commands" -> MapSeq(c.commands, SerializeCommand)
          [] k = "fxaDeviceId" -> c.fxa_device_id[1]
          [] k = "version" -> c.version[1]
          [] k = "protocols" -> c.protocols
          [] k = "formfactor" -> c.form_factor[1]
          [] k = "os" -> c.os[1]
          [] k = "appPackage" -> c.app_package[1]
          [] k = "application" -> c.application[1]
          [] k = "device" -> c.device[1]]

\* #[derive(Deserialize)] for Client: id and name are required, a command
\* needs its "command" key; every other field has a default.
Decodable(j) ==
    /\ {"id", "name"} \subseteq DOMAIN j
    /\ \A i \in 1..Len(VecField(j, "commands")) :
          "command" \in DOMAIN j["commands"][i]

DeserializeClient(j) ==
    [id |-> j["id"],
     name |-> j["name"],
     typ |-> OptField(j, "type"),
     commands |-> MapSeq(VecField(j, "commands"), DeserializeCommand),
     fxa_device_id |-> OptField(j, "fxaDeviceId"),
     version |-> OptField(j, "version"),
     protocols |-> VecField(j, "protocols"),
     form_factor |-> OptField(j, "formfactor"),
     os |-> OptField(j, "os"),
     app_package |-> OptField(j, "appPackage"),
     application |-> OptField(j, "application"),
     device |-> OptField(j, "device")]

\* ------------------------------------------------------------------------
\* clients/ser.rs (shrink_to_fit), modelled from its contract: entries are
\* removed until the JSON text of the list fits the budget or the list is
\* empty; retained entries keep their order.  Entries are dropped from the
\* tail.
\* ------------------------------------------------------------------------
\* Byte length of the strings that occur in the model.
StrLen(s) ==
    CASE s = "" -> 0
      [] s = "wipeEngine" -> 10
      [] s = "wipeAll" -> 7
      [] s = "resetEngine" -> 11
      [] s = "resetAll" -> 8
      [] s = "logins" -> 6
      [] s = "passwords" -> 9
      [] s = "history" -> 7
      [] s = "bookmarks" -> 9
      [] s = "displayURI" -> 10
      [] s = "uri" -> 3
      [] s = "f1" -> 2
      [] OTHER -> 4

RECURSIVE SumSeq(_)
SumSeq(s) == IF s = <<>> THEN 0 ELSE s[1] + SumSeq(Tail(s))

\* Length of the JSON text of a list: brackets, entries, separating commas.
JsonListSize(sizes) ==
    2 + SumSeq(sizes) + (IF Len(sizes) > 1 THEN Len(sizes) - 1 ELSE 0)

JsonStrSize(s) == StrLen(s) + 2

\* {"command":"..","args":[..],"flowId":".."}
CommandSize(c) ==
    11 + JsonStrSize(c.name)
    + 8 + JsonListSize([i \in 1..Len(c.args) |-> JsonStrSize(c.args[i])])
    + (IF c.flow_id = None THEN 0 ELSE 10 + JsonStrSize(c.flow_id[1]))
    + 1

compute_serialized_size(list) ==
    JsonListSize([i \in 1..Len(list) |-> CommandSize(list[i])])

RECURSIVE shrink_to_fit(_, _)
shrink_to_fit(list, max_serialized_size) ==
    IF list = <<>> \/ compute_serialized_size(list) <= max_serialized_size
    THEN list
    ELSE shrink_to_fit(SubSeq(list, 1, Len(list) - 1), max_serialized_size)

\* ------------------------------------------------------------------------
\* clients/engine.rs: payload size limits
\* ------------------------------------------------------------------------
SafetyMargin == 4096
MemcacheCeiling == 512 * 1024

\* max_record_payload_size with a plain subtraction instead of
\* checked_sub(4096).unwrap_or(0).
max_record_payload_size_NoFloor(cfg) ==
    IF cfg.max_record_payload_bytes <= cfg.max_post_bytes
    THEN cfg.max_post_bytes - SafetyMargin
    ELSE cfg.max_record_payload_bytes

max_record_payload_size(cfg) ==
    IF cfg.max_record_payload_bytes <= cfg.max_post_bytes
    THEN (IF cfg.max_post_bytes >= SafetyMargin
          THEN cfg.max_post_bytes - SafetyMargin ELSE 0)
    ELSE cfg.max_record_payload_bytes

Min(a, b) == IF a <= b THEN a ELSE b

\* memcache_max_record_payload_size without the 512k ceiling.
memcache_max_record_payload_size_NoCeiling(cfg) ==
    IF cfg.max_record_payload_bytes <= cfg.max_post_bytes
    THEN (IF cfg.max_post_bytes >= SafetyMargin
          THEN cfg.max_post_bytes - SafetyMargin ELSE 0)
    ELSE cfg.max_record_payload_bytes

memcache_max_record_payload_size(cfg) ==
    Min(max_record_payload_size(cfg), MemcacheCeiling)

\* Engine::current_client_record
current_client_record(d) ==
    [id |-> Settings(d).client_id,
     name |-> Settings(d).name,
     typ |-> Some(Type_as_str(Settings(d).client_type)),
     commands |-> <<>>,
     fxa_device_id |-> Some(Settings(d).fxa_device_id),
     version |-> None,
     protocols |-> <<"1.5">>,
     form_factor |-> None,
     os |-> None,
     app_package |-> None,
     application |-> None,
     device |-> None]

\* ------------------------------------------------------------------------
\* State
\* ------------------------------------------------------------------------
VARIABLES
    server,             \* the clients collection: a sequence of JSON payloads
    srvTime,            \* the collection's last-modified timestamp
    config,             \* global_state.config (the server's size limits)
    pending,            \* pending[d]: what fetch_outgoing_commands returns
    pc,                 \* pc[d]: position of device d inside Engine::sync
    interrupted,        \* interrupted[d]: the interrupt flag of d's scope
    cycles,             \* calls of sync so far, by any device
    last_modified,      \* last_modified[d]: coll_state.last_modified
    inbound,            \* inbound[d]: the IncomingChangeset of this cycle
    outgoing,           \* outgoing[d]: the OutgoingChangeset being built
    outgoing_commands,  \* outgoing_commands[d]: local of apply_incoming
    result,             \* result[d]: what the last call of sync returned
    upload_call,        \* upload_call[d]: the upload invoked in this cycle
    upload_info,        \* upload_info[d]: what that upload returned
    applied,            \* applied[d]: Commands given to apply_incoming_command
    results,            \* results[d]: outcome per command of the own record
    merged              \* merged[d]: command lists before shrink_to_fit

vars ==
    <<server, srvTime, config, pending, pc, interrupted, cycles,
      last_modified, inbound, outgoing, outgoing_commands, result,
      upload_call, upload_info, applied, results, merged>>

\* ------------------------------------------------------------------------
\* Initial contents of the collection
\* ------------------------------------------------------------------------
\* The record of A as it lies on the server, with commands sent to A.
RecA ==
    [id |-> "A", name |-> "old phone", type |-> "tablet",
     fxaDeviceId |-> "fxaOld", version |-> "68.0", protocols |-> <<"1.5">>,
     commands |-> <<[command |-> "wipeEngine", args |-> <<"history">>],
                    [command |-> "displayURI", args |-> <<"uri">>,
                     flowID |-> "f1"],
                    [command |-> "resetEngine", args |-> <<"logins">>,
                     flowId |-> "f1"]>>]

\* The record of B, already holding two commands.
RecB ==
    [id |-> "B", name |-> "laptop", type |-> "desktop",
     fxaDeviceId |-> "fxaB", protocols |-> <<"1.5">>,
     commands |-> <<[command |-> "wipeEngine", args |-> <<"history">>],
                    [command |-> "resetAll", args |-> <<>>]>>]

\* A third device that does not run this engine (no type, legacy fields).
RecP ==
    [id |-> "P", name |-> "desk", version |-> "60.0", os |-> "Linux",
     formfactor |-> "largetablet", appPackage |-> "org.mozilla.firefox",
     application |-> "Firefox", device |-> "PC",
     commands |-> <<[command |-> "wipeAll", args |-> <<>>, flowID |-> "f1"]>>]

\* A tombstone: it has no name, so it does not decode to a Client.
Tombstone == [id |-> "T", deleted |-> TRUE]

InitCollections ==
    { <<>>,
      <<RecA, RecB>>,
      <<RecB, RecP>>,
      <<RecP, RecA, Tombstone>> }

InitConfigs ==
    { [max_record_payload_bytes |-> 2000000, max_post_bytes |-> 1000000],
      [max_record_payload_bytes |-> 0, max_post_bytes |-> SafetyMargin + 100] }

InitPending ==
    { [A |-> {}, B |-> {}],
      [A |-> {"WipeLogins"}, B |-> {}],
      [A |-> {"WipeHistory", "ResetAll"}, B |-> {"WipeAll"}] }

EmptyChangeset == [changes |-> <<>>, timestamp |-> 0]

NoUploadInfo ==
    [successful_ids |-> {}, failed_ids |-> {}, modified_timestamp |-> 0]

Init ==
    /\ server \in InitCollections
    /\ srvTime = 1
    /\ config \in InitConfigs
    /\ pending \in InitPending
    /\ pc = [d \in Devices |-> "idle"]
    /\ interrupted = [d \in Devices |-> FALSE]
    /\ cycles = 0
    /\ last_modified = [d \in Devices |-> 0]
    /\ inbound = [d \in Devices |-> EmptyChangeset]
    /\ outgoing = [d \in Devices |-> EmptyChangeset]
    /\ outgoing_commands = [d \in Devices |-> {}]
    /\ result = [d \in Devices |-> "none"]
    /\ upload_call = [d \in Devices |-> None]
    /\ upload_info = [d \in Devices |-> NoUploadInfo]
    /\ applied = [d \in Devices |-> {}]
    /\ results = [d \in Devices |-> <<>>]
    /\ merged = [d \in Devices |-> <<>>]

\* ------------------------------------------------------------------------
\* Helpers of the actions
\* ------------------------------------------------------------------------
\* sync returns r: the cycle is over, and with it the locals of sync and
\* the interrupt scope it ran in.
Return(d, r) ==
    /\ pc' = [pc EXCEPT ![d] = "idle"]
    /\ result' = [result EXCEPT ![d] = r]
    /\ interrupted' = [interrupted EXCEPT ![d] = FALSE]
    /\ last_modified' = [last_modified EXCEPT ![d] = 0]
    /\ inbound' = [inbound EXCEPT ![d] = EmptyChangeset]
    /\ outgoing' = [outgoing EXCEPT ![d] = EmptyChangeset]
    /\ outgoing_commands' = [outgoing_commands EXCEPT ![d] = {}]
    /\ merged' = [merged EXCEPT ![d] = <<>>]

\* sync goes on to the position at.
Goto(d, at) ==
    /\ pc' = [pc EXCEPT ![d] = at]
    /\ UNCHANGED <<result, interrupted>>

\* The sequence s without the positions whose flag is false.
RECURSIVE Keep(_, _, _)
Keep(s, flags, i) ==
    IF i > Len(s) THEN <<>>
    ELSE (IF flags[i] THEN <<s[i]>> ELSE <<>>) \o Keep(s, flags, i + 1)

\* All orders in which a HashSet of Commands can be iterated.
RECURSIVE Orders(_)
Orders(S) ==
    IF S = {} THEN {<<>>}
    ELSE UNION {{<<x>> \o o : o \in Orders(S \ {x})} : x \in S}

\* The possible outcomes of the own record's commands: a command that does
\* not classify is "unsupported", the callback decides for the others.
Outcomes(commands) ==
    {r \in [1..Len(commands) -> {"ok", "failed", "unsupported"}] :
        \A i \in 1..Len(commands) :
            (r[i] = "unsupported") <=> (as_command(commands[i]) = None)}

\* requeued putting back only the commands that failed to apply, not the
\* ones that do not classify.
requeued_FailedOnly(commands, r) ==
    Keep(commands, [i \in 1..Len(commands) |-> r[i] = "failed"], 1)

\* The own-record branch of apply_incoming, before shrink_to_fit.
requeued(commands, r) ==
    Keep(commands, [i \in 1..Len(commands) |-> r[i] # "ok"], 1)

\* The peer branch of apply_incoming, before shrink_to_fit.
peer_commands(commands) ==
    {as_command(commands[i])[1] :
        i \in {j \in 1..Len(commands) : as_command(commands[j]) # None}}

new_commands(commands, out_cmds) == out_cmds \ peer_commands(commands)

extended(commands, order) == commands \o MapSeq(order, From)

\* The server side of an upload: each record replaces the one with its id,
\* or is added to the collection.
Put(coll, p) ==
    IF \E i \in 1..Len(coll) : coll[i]["id"] = p["id"]
    THEN [i \in 1..Len(coll) |-> IF coll[i]["id"] = p["id"] THEN p ELSE coll[i]]
    ELSE Append(coll, p)

RECURSIVE PutAll(_, _, _)
PutAll(coll, changes, failed_ids) ==
    IF changes = <<>> THEN coll
    ELSE PutAll(IF changes[1]["id"] \in failed_ids THEN coll
                ELSE Put(coll, changes[1]),
                Tail(changes), failed_ids)

Ids(changes) == {changes[i]["id"] : i \in 1..Len(changes)}

\* ------------------------------------------------------------------------
\* Engine::sync, in the steps between its calls to the outside
\* ------------------------------------------------------------------------
\* The scheduler runs one cycle of the clients collection at a time.
Scheduled(d) == \A e \in Devices : pc[e] = "idle"

\* sync up to the call of fetch_incoming: the keys and the CollState.
Begin(d) ==
    /\ Scheduled(d)
    /\ cycles < MaxCycles
    /\ cycles' = cycles + 1
    /\ upload_call' = [upload_call EXCEPT ![d] = None]
    /\ upload_info' = [upload_info EXCEPT ![d] = NoUploadInfo]
    /\ applied' = [applied EXCEPT ![d] = {}]
    /\ results' = [results EXCEPT ![d] = <<>>]
    /\ \E keys_ok \in BOOLEAN, cursor \in {0, srvTime} :
          IF ~keys_ok
          THEN Return(d, "KeysError")
          ELSE /\ last_modified' = [last_modified EXCEPT ![d] = cursor]
               /\ pc' = [pc EXCEPT ![d] = "fetch"]
               /\ result' = [result EXCEPT ![d] = "none"]
               /\ UNCHANGED <<interrupted, inbound, outgoing,
                              outgoing_commands, merged>>
    /\ UNCHANGED <<server, srvTime, config, pending>>

\* fetch_incoming
FetchIncoming(d) ==
    /\ pc[d] = "fetch"
    /\ \E fetch_ok \in BOOLEAN :
          IF interrupted[d]
          THEN Return(d, "InterruptedError")
          ELSE IF ~fetch_ok
          THEN Return(d, "FetchError")
          ELSE /\ inbound' = [inbound EXCEPT ![d] =
                        [changes |-> server, timestamp |-> srvTime]]
               /\ Goto(d, "apply")
               /\ UNCHANGED <<last_modified, outgoing, outgoing_commands,
                              merged>>
    /\ UNCHANGED <<server, srvTime, config, pending, cycles, upload_call,
                   upload_info, applied, results>>

\* apply_incoming up to its loop.
ApplyBegin(d) ==
    /\ pc[d] = "apply"
    /\ \E cmds_ok \in BOOLEAN :
          IF interrupted[d]
          THEN Return(d, "InterruptedError")
          ELSE IF ~cmds_ok
          THEN Return(d, "OutgoingCommandsError")
          ELSE /\ outgoing' = [outgoing EXCEPT ![d] =
                      [changes |-> <<>>, timestamp |-> inbound[d].timestamp]]
               /\ outgoing_commands' =
                      [outgoing_commands EXCEPT ![d] = pending[d]]
               /\ Goto(d, "loop")
               /\ UNCHANGED <<last_modified, inbound, merged>>
    /\ UNCHANGED <<server, srvTime, config, pending, cycles, upload_call,
                   upload_info, applied, results>>

\* The payload the loop of apply_incoming is about to process.
NextIndex(d) == Len(outgoing[d].changes) + 1

\* Push inserting the record at the front of the batch.
Push_Front(d, client, list) ==
    /\ outgoing' = [outgoing EXCEPT ![d].changes =
                       <<SerializeClient(client)>> \o @]
    /\ merged' = [merged EXCEPT ![d] = <<list>> \o @]
    /\ Goto(d, "loop")
    /\ UNCHANGED <<last_modified, inbound, outgoing_commands>>

\* outgoing.changes.push(Payload::from_record(client)?), and the list the
\* record had before shrink_to_fit.
Push(d, client, list) ==
    /\ outgoing' = [outgoing EXCEPT ![d].changes =
                       Append(@, SerializeClient(client))]
    /\ merged' = [merged EXCEPT ![d] = Append(@, list)]
    /\ Goto(d, "loop")
    /\ UNCHANGED <<last_modified, inbound, outgoing_commands>>

\* ProcessOwn with a fatal callback: a command that fails to apply ends
\* the cycle with the callback's error (apply_incoming_command(command)?).
ProcessOwn_Fatal(d, client, ser_ok) ==
    \E r \in Outcomes(client.commands) :
        LET list == requeued(client.commands, r)
            budget == memcache_max_record_payload_size(config)
            record == [current_client_record(d) EXCEPT
                          !.commands = shrink_to_fit(list, budget)]
        IN /\ applied' = [applied EXCEPT ![d] =
                  @ \cup {as_command(client.commands[i])[1] :
                            i \in {j \in 1..Len(r) : r[j] # "unsupported"}}]
           /\ results' = [results EXCEPT ![d] = r]
           /\ IF "failed" \in {r[k] : k \in 1..Len(r)}
              THEN Return(d, "CommandError")
              ELSE IF ser_ok
              THEN Push(d, record, list)
              ELSE Return(d, "SerializationError")

\* ProcessOwn re-uploading the fetched record instead of a record built
\* from the Settings.
ProcessOwn_KeepFetched(d, client, ser_ok) ==
    \E r \in Outcomes(client.commands) :
        LET list == requeued(client.commands, r)
            budget == memcache_max_record_payload_size(config)
            record == [client EXCEPT
                          !.commands = shrink_to_fit(list, budget)]
        IN /\ applied' = [applied EXCEPT ![d] =
                  @ \cup {as_command(client.commands[i])[1] :
                            i \in {j \in 1..Len(r) : r[j] # "unsupported"}}]
           /\ results' = [results EXCEPT ![d] = r]
           /\ IF ser_ok
              THEN Push(d, record, list)
              ELSE Return(d, "SerializationError")

\* One iteration of the loop of apply_incoming, for the own record.
ProcessOwn(d, client, ser_ok) ==
    \E r \in Outcomes(client.commands) :
        LET list == requeued(client.commands, r)
            budget == memcache_max_record_payload_size(config)
            record == [current_client_record(d) EXCEPT
                          !.commands = shrink_to_fit(list, budget)]
        IN /\ applied' = [applied EXCEPT ![d] =
                  @ \cup {as_command(client.commands[i])[1] :
                            i \in {j \in 1..Len(r) : r[j] # "unsupported"}}]
           /\ results' = [results EXCEPT ![d] = r]
           /\ IF ser_ok
              THEN Push(d, record, list)
              ELSE Return(d, "SerializationError")

\* ProcessPeer without the call of shrink_to_fit.
ProcessPeer_NoShrink(d, client, ser_ok) ==
    \E order \in Orders(new_commands(client.commands, outgoing_commands[d])) :
        LET list == extended(client.commands, order)
            record == [client EXCEPT !.commands = list]
        IN /\ UNCHANGED <<applied, results>>
           /\ IF ser_ok
              THEN Push(d, record, list)
              ELSE Return(d, "SerializationError")

\* One iteration of the loop of apply_incoming, for a peer's record.
ProcessPeer(d, client, ser_ok) ==
    \E order \in Orders(new_commands(client.commands, outgoing_commands[d])) :
        LET list == extended(client.commands, order)
            budget == memcache_max_record_payload_size(config)
            record == [client EXCEPT !.commands = shrink_to_fit(list, budget)]
        IN /\ UNCHANGED <<applied, results>>
           /\ IF ser_ok
              THEN Push(d, record, list)
              ELSE Return(d, "SerializationError")

ProcessRecord(d) ==
    /\ pc[d] = "loop"
    /\ NextIndex(d) <= Len(inbound[d].changes)
    /\ LET payload == inbound[d].changes[NextIndex(d)]
       IN IF interrupted[d]
          THEN /\ Return(d, "InterruptedError")
               /\ UNCHANGED <<applied, results>>
          ELSE IF ~Decodable(payload)
          THEN /\ Return(d, "DecodeError")
               /\ UNCHANGED <<applied, results>>
          ELSE \E ser_ok \in BOOLEAN :
                  LET client == DeserializeClient(payload)
                  IN IF client.id = Settings(d).client_id
                     THEN ProcessOwn(d, client, ser_ok)
                     ELSE ProcessPeer(d, client, ser_ok)
    /\ UNCHANGED <<server, srvTime, config, pending, cycles, upload_call,
                   upload_info>>

\* What the upload may report as failed.
FailedIdsChoices(changes) == {{}, Ids(changes)}

\* Upload without the checkpoint of sync before the upload.
Upload_NoCheckpoint(d) ==
    /\ pc[d] = "loop"
    /\ NextIndex(d) > Len(inbound[d].changes)
    /\ upload_call' = [upload_call EXCEPT ![d] =
           Some([changes |-> outgoing[d].changes,
                 last_modified |-> outgoing[d].timestamp])]
    /\ \E upload_ok \in BOOLEAN :
          IF ~upload_ok \/ srvTime > outgoing[d].timestamp
          THEN /\ Return(d, "UploadError")
               /\ UNCHANGED <<server, srvTime, upload_info>>
          ELSE \E failed_ids \in FailedIdsChoices(outgoing[d].changes) :
                  /\ server' = PutAll(server, outgoing[d].changes, failed_ids)
                  /\ srvTime' =
                         IF Ids(outgoing[d].changes) \subseteq failed_ids
                         THEN srvTime ELSE srvTime + 1
                  /\ upload_info' = [upload_info EXCEPT ![d] =
                         [successful_ids |->
                              Ids(outgoing[d].changes) \ failed_ids,
                          failed_ids |-> failed_ids,
                          modified_timestamp |-> srvTime']]
                  /\ Return(d, "Ok")
    /\ UNCHANGED <<config, pending, cycles, applied, results>>

\* Upload without coll_state.last_modified = outgoing.timestamp: the upload
\* gets the cursor of the global state.
Upload_StaleCursor(d) ==
    /\ pc[d] = "loop"
    /\ NextIndex(d) > Len(inbound[d].changes)
    /\ IF interrupted[d]
       THEN /\ Return(d, "InterruptedError")
            /\ UNCHANGED <<server, srvTime, upload_call, upload_info>>
       ELSE /\ upload_call' = [upload_call EXCEPT ![d] =
                   Some([changes |-> outgoing[d].changes,
                         last_modified |-> last_modified[d]])]
            /\ \E upload_ok \in BOOLEAN :
                  IF ~upload_ok \/ srvTime > outgoing[d].timestamp
                  THEN /\ Return(d, "UploadError")
                       /\ UNCHANGED <<server, srvTime, upload_info>>
                  ELSE \E failed_ids \in FailedIdsChoices(outgoing[d].changes) :
                          /\ server' = PutAll(server, outgoing[d].changes,
                                              failed_ids)
                          /\ srvTime' =
                                 IF Ids(outgoing[d].changes) \subseteq failed_ids
                                 THEN srvTime ELSE srvTime + 1
                          /\ upload_info' = [upload_info EXCEPT ![d] =
                                 [successful_ids |->
                                      Ids(outgoing[d].changes) \ failed_ids,
                                  failed_ids |-> failed_ids,
                                  modified_timestamp |-> srvTime']]
                          /\ Return(d, "Ok")
    /\ UNCHANGED <<config, pending, cycles, applied, results>>

\* Upload taking a reported failed id for a failure of the cycle.
Upload_FailOnFailedIds(d) ==
    /\ pc[d] = "loop"
    /\ NextIndex(d) > Len(inbound[d].changes)
    /\ IF interrupted[d]
       THEN /\ Return(d, "InterruptedError")
            /\ UNCHANGED <<server, srvTime, upload_call, upload_info>>
       ELSE /\ upload_call' = [upload_call EXCEPT ![d] =
                   Some([changes |-> outgoing[d].changes,
                         last_modified |-> outgoing[d].timestamp])]
            /\ \E upload_ok \in BOOLEAN :
                  IF ~upload_ok \/ srvTime > outgoing[d].timestamp
                  THEN /\ Return(d, "UploadError")
                       /\ UNCHANGED <<server, srvTime, upload_info>>
                  ELSE \E failed_ids \in FailedIdsChoices(outgoing[d].changes) :
                          /\ server' = PutAll(server, outgoing[d].changes,
                                              failed_ids)
                          /\ srvTime' =
                                 IF Ids(outgoing[d].changes) \subseteq failed_ids
                                 THEN srvTime ELSE srvTime + 1
                          /\ upload_info' = [upload_info EXCEPT ![d] =
                                 [successful_ids |->
                                      Ids(outgoing[d].changes) \ failed_ids,
                                  failed_ids |-> failed_ids,
                                  modified_timestamp |-> srvTime']]
                          /\ Return(d, IF failed_ids = {} THEN "Ok"
                                       ELSE "UploadError")
    /\ UNCHANGED <<config, pending, cycles, applied, results>>

\* The end of apply_incoming and the rest of sync: the cursor, the last
\* checkpoint and the upload.
Upload(d) ==
    /\ pc[d] = "loop"
    /\ NextIndex(d) > Len(inbound[d].changes)
    /\ IF interrupted[d]
       THEN /\ Return(d, "InterruptedError")
            /\ UNCHANGED <<server, srvTime, upload_call, upload_info>>
       ELSE /\ upload_call' = [upload_call EXCEPT ![d] =
                   Some([changes |-> outgoing[d].changes,
                         last_modified |-> outgoing[d].timestamp])]
            /\ \E upload_ok \in BOOLEAN :
                  IF ~upload_ok \/ srvTime > outgoing[d].timestamp
                  THEN /\ Return(d, "UploadError")
                       /\ UNCHANGED <<server, srvTime, upload_info>>
                  ELSE \E failed_ids \in FailedIdsChoices(outgoing[d].changes) :
                          /\ server' = PutAll(server, outgoing[d].changes,
                                              failed_ids)
                          /\ srvTime' =
                                 IF Ids(outgoing[d].changes) \subseteq failed_ids
                                 THEN srvTime ELSE srvTime + 1
                          /\ upload_info' = [upload_info EXCEPT ![d] =
                                 [successful_ids |->
                                      Ids(outgoing[d].changes) \ failed_ids,
                                  failed_ids |-> failed_ids,
                                  modified_timestamp |-> srvTime']]
                          /\ Return(d, "Ok")
    /\ UNCHANGED <<config, pending, cycles, applied, results>>

\* Another thread interrupts the scope the cycle runs in.
Interrupt(d) ==
    /\ pc[d] # "idle"
    /\ ~interrupted[d]
    /\ interrupted' = [interrupted EXCEPT ![d] = TRUE]
    /\ UNCHANGED <<server, srvTime, config, pending, pc, cycles,
                   last_modified, inbound, outgoing, outgoing_commands,
                   result, upload_call, upload_info, applied, results,
                   merged>>

Next ==
    \E d \in Devices :
        \/ Begin(d)
        \/ FetchIncoming(d)
        \/ ApplyBegin(d)
        \/ ProcessRecord(d)
        \/ Upload(d)
        \/ Interrupt(d)

Spec == Init /\ [][Next]_vars

\* ------------------------------------------------------------------------
\* The same engine under a range of server limits: limits below, at and
\* above the safety margin, budgets of a few bytes, and limits beyond the
\* 512k ceiling.  The collection and the outgoing commands are fixed.
\* ------------------------------------------------------------------------
SizeConfigs ==
    [max_record_payload_bytes : {0, 2000000},
     max_post_bytes : {0, SafetyMargin, SafetyMargin + 30,
                       SafetyMargin + 100, 1000000}]

SizeInit ==
    /\ server = <<RecA, RecB>>
    /\ srvTime = 1
    /\ config \in SizeConfigs
    /\ pending = [A |-> {"WipeHistory", "ResetAll"}, B |-> {"WipeAll"}]
    /\ pc = [d \in Devices |-> "idle"]
    /\ interrupted = [d \in Devices |-> FALSE]
    /\ cycles = 0
    /\ last_modified = [d \in Devices |-> 0]
    /\ inbound = [d \in Devices |-> EmptyChangeset]
    /\ outgoing = [d \in Devices |-> EmptyChangeset]
    /\ outgoing_commands = [d \in Devices |-> {}]
    /\ result = [d \in Devices |-> "none"]
    /\ upload_call = [d \in Devices |-> None]
    /\ upload_info = [d \in Devices |-> NoUploadInfo]
    /\ applied = [d \in Devices |-> {}]
    /\ results = [d \in Devices |-> <<>>]
    /\ merged = [d \in Devices |-> <<>>]

SizeSpec == SizeInit /\ [][Next]_vars

\* ------------------------------------------------------------------------
\* Vocabulary of the properties
\* ------------------------------------------------------------------------
\* The records device d has pushed so far in the cycle it is running.
Processed(d) ==
    IF pc[d] = "loop" THEN 1..Len(outgoing[d].changes) ELSE {}

Fetched(d, i) == inbound[d].changes[i]
Emitted(d, i) == outgoing[d].changes[i]

WireCommands(j) == VecField(j, "commands")

\* The budget of shrink_to_fit is so large that nothing is ever removed.
NoTruncation == memcache_max_record_payload_size(config) = MemcacheCeiling

Occurrences(s, x) == Cardinality({i \in 1..Len(s) : s[i] = x})

\* The name and the arguments of a command, without its flow id.
NameArgs(c) == <<c.name, c.args>>

Range(s) == {s[i] : i \in 1..Len(s)}

\* ------------------------------------------------------------------------
\* C1.  Encoding any Command that a device sends and classifying the wire
\* form again gives the Command back: as_command(From(c)) = Some(c).
\* ------------------------------------------------------------------------
C1_RoundTrip ==
    \A d \in Devices : \A c \in outgoing_commands[d] :
        as_command(From(c)) = Some(c)

\* ------------------------------------------------------------------------
\* C2.  Delivery: when a has completed a cycle whose upload stored the
\* record of b, and b has then fetched what that upload left and completed
\* a cycle, apply_incoming_command of b was invoked with every Command a
\* sends (here: under a budget that never truncates).
\* ------------------------------------------------------------------------
C2_Delivery ==
    \A a \in Devices, b \in Devices :
        ( /\ a # b
          /\ NoTruncation
          /\ result[a] = "Ok"
          /\ b \in upload_info[a].successful_ids
          /\ result[b] = "Ok"
          /\ upload_call[b] # None
          /\ upload_call[b][1].last_modified
                = upload_info[a].modified_timestamp )
        => pending[a] \subseteq applied[b]

\* ------------------------------------------------------------------------
\* C3.  No duplication across cycles: a peer's record in the collection
\* holds the wire form of each command a device sends at most once.
\* ------------------------------------------------------------------------
C3_NoDuplication ==
    \A i \in 1..Len(server) : \A d \in Devices : \A c \in pending[d] :
        (Decodable(server[i]) /\ server[i]["id"] # d)
        => Occurrences(DeserializeClient(server[i]).commands, From(c)) <= 1

\* ------------------------------------------------------------------------
\* C4.  De-duplication in one merge: a peer record whose fetched command
\* list contains the wire form of every outgoing command is emitted with
\* the command list it was fetched with (here: under a budget that never
\* truncates).
\* ------------------------------------------------------------------------
C4_Dedup ==
    \A d \in Devices : \A i \in Processed(d) :
        LET fetched == DeserializeClient(Fetched(d, i)).commands
            emitted == DeserializeClient(Emitted(d, i)).commands
        IN ( /\ Fetched(d, i)["id"] # d
             /\ NoTruncation
             /\ \A c \in outgoing_commands[d] :
                   NameArgs(From(c)) \in {NameArgs(x) : x \in Range(fetched)} )
           => emitted = fetched

\* ------------------------------------------------------------------------
\* C5.  Own-record freshness: the batch of every upload holds exactly one
\* record whose id is the id of the local device.
\* ------------------------------------------------------------------------
C5_OwnRecord ==
    \A d \in Devices :
        upload_call[d] # None
        => LET changes == upload_call[d][1].changes
           IN Cardinality({i \in 1..Len(changes) : changes[i]["id"] = d}) = 1

\* ------------------------------------------------------------------------
\* C6.  Requeue: unless the list is truncated, the commands of the emitted
\* own record are the fetched own record's commands that were not applied
\* with success, unmodified on the wire and in their fetched order.
\* ------------------------------------------------------------------------
C6_Requeue ==
    \A d \in Devices : \A i \in Processed(d) :
        ( /\ Fetched(d, i)["id"] = d
          /\ DeserializeClient(Emitted(d, i)).commands = merged[d][i] )
        => WireCommands(Emitted(d, i)) =
              Keep(WireCommands(Fetched(d, i)),
                   [k \in 1..Len(results[d]) |-> results[d][k] # "ok"], 1)

\* ------------------------------------------------------------------------
\* C7.  A command of the fetched own record is absent from the emitted own
\* record exactly if it was applied with success, and a command that does
\* not classify is in the emitted record as it was fetched (here: under a
\* budget that never truncates).
\* ------------------------------------------------------------------------
C7_AbsentIffApplied ==
    \A d \in Devices : \A i \in Processed(d) :
        (Fetched(d, i)["id"] = d /\ NoTruncation)
        => \A k \in 1..Len(WireCommands(Fetched(d, i))) :
              LET c == WireCommands(Fetched(d, i))[k]
              IN /\ (c \notin Range(WireCommands(Emitted(d, i))))
                        <=> (results[d][k] = "ok")
                 /\ (results[d][k] = "ok")
                        => as_command(DeserializeCommand(c)) # None

\* ------------------------------------------------------------------------
\* C8.  The peer merge appends and preserves: before truncation the
\* command list on the wire is the fetched list followed by the wire forms
\* of the outgoing commands the peer's list does not classify to, and all
\* other fields of the emitted record are those of the fetched record.
\* ------------------------------------------------------------------------
C8_PeerFrame ==
    \A d \in Devices : \A i \in Processed(d) :
        LET f == Fetched(d, i)
            e == Emitted(d, i)
            before == MapSeq(merged[d][i], SerializeCommand)
            n == Len(WireCommands(f))
            classified ==
                peer_commands(MapSeq(WireCommands(f), DeserializeCommand))
        IN f["id"] # d
           => /\ Len(before) >= n
              /\ SubSeq(before, 1, n) = WireCommands(f)
              /\ \E order \in Orders(outgoing_commands[d] \ classified) :
                    SubSeq(before, n + 1, Len(before)) =
                        MapSeq(order, LAMBDA c : SerializeCommand(From(c)))
              /\ DOMAIN e \ {"commands"} = DOMAIN f \ {"commands"}
              /\ \A k \in DOMAIN f \ {"commands"} : e[k] = f[k]

\* ------------------------------------------------------------------------
\* C9.  Cancellation: a step of sync that finds the interrupt flag set at
\* a checkpoint returns the interruption error, invokes no upload and
\* leaves the collection as it is.
\* ------------------------------------------------------------------------
Steps(d) == pc'[d] # pc[d] \/ outgoing'[d] # outgoing[d]

C9_Cancellation ==
    [][\A d \in Devices :
          (interrupted[d] /\ pc[d] # "idle" /\ Steps(d))
          => /\ pc'[d] = "idle"
             /\ result'[d] = "InterruptedError"
             /\ upload_call'[d] = None
             /\ server' = server]_vars

\* A cycle was interrupted after it had applied commands of its own record.
C9_Witness ==
    \E d \in Devices : result[d] = "InterruptedError" /\ applied[d] # {}

\* ------------------------------------------------------------------------
\* C10.  Error propagation: a command that fails to apply or does not
\* classify does not end the cycle; a payload that does not decode ends it
\* with the decode error; a cycle that returned an error of a phase before
\* the upload has invoked no upload, and a cycle returns Ok or the upload
\* error only after it invoked the upload.
\* ------------------------------------------------------------------------
PreUploadErrors ==
    {"KeysError", "FetchError", "InterruptedError", "OutgoingCommandsError",
     "DecodeError", "SerializationError"}

AtRecord(d) ==
    /\ pc[d] = "loop"
    /\ NextIndex(d) <= Len(inbound[d].changes)
    /\ ~interrupted[d]

C10_ErrorPropagation ==
    [][\A d \in Devices :
          /\ (AtRecord(d) /\ Steps(d) /\ Decodable(Fetched(d, NextIndex(d))))
             => \/ pc'[d] = "loop" /\ Len(outgoing'[d].changes) = NextIndex(d)
                \/ pc'[d] = "idle" /\ result'[d] = "SerializationError"
          /\ (AtRecord(d) /\ Steps(d) /\ ~Decodable(Fetched(d, NextIndex(d))))
             => pc'[d] = "idle" /\ result'[d] = "DecodeError"
          /\ result'[d] \in PreUploadErrors
             => upload_call'[d] = None /\ (Steps(d) => server' = server)
          /\ result'[d] \in {"Ok", "UploadError"} => upload_call'[d] # None
      ]_vars

\* A cycle returned Ok although a command of the own record failed to apply
\* and another one did not classify.
C10_Witness ==
    \E d \in Devices :
        /\ result[d] = "Ok"
        /\ "failed" \in Range(results[d])
        /\ "unsupported" \in Range(results[d])

\* ------------------------------------------------------------------------
\* C11.  With max_record_payload_bytes = 2,000,000 and max_post_bytes =
\* 1,000,000 the record limit a merge works with is 995,904 and the
\* memcache limit 524,288.
\* ------------------------------------------------------------------------
C11Config ==
    [max_record_payload_bytes |-> 2000000, max_post_bytes |-> 1000000]

C11_SizeExample ==
    (config = C11Config /\ \E d \in Devices : Processed(d) # {})
    => /\ max_record_payload_size(config) = 995904
       /\ memcache_max_record_payload_size(config) = 524288

\* C11 as amended: with these limits the record limit is the server's
\* per-record limit, 2,000,000 (it is greater than the POST limit), and the
\* memcache limit is 524,288.
C11_SizeExampleAmended ==
    (config = C11Config /\ \E d \in Devices : Processed(d) # {})
    => /\ max_record_payload_size(config) = 2000000
       /\ memcache_max_record_payload_size(config) = 524288

\* A record was merged and truncated under these limits.
C11_Witness ==
    config = C11Config /\ \E d \in Devices : Processed(d) # {}

\* ------------------------------------------------------------------------
\* C12.  For all limits: the record limit is max_record_payload_bytes when
\* that is strictly greater than max_post_bytes, otherwise max_post_bytes
\* minus 4096, and 0 when that would be negative; the memcache limit is the
\* smaller of the record limit and 524,288.
\* ------------------------------------------------------------------------
C12_SizeFormula ==
    LET p == config.max_record_payload_bytes
        q == config.max_post_bytes
        m == max_record_payload_size(config)
        c == memcache_max_record_payload_size(config)
    IN /\ p > q => m = p
       /\ (p <= q /\ q >= 4096) => m = q - 4096
       /\ (p <= q /\ q < 4096) => m = 0
       /\ m >= 0
       /\ (m <= 524288 => c = m) /\ (m > 524288 => c = 524288)
       /\ c <= 524288

\* A record was merged under a POST limit below the safety margin.
C12_Witness ==
    /\ config.max_post_bytes < SafetyMargin
    /\ config.max_record_payload_bytes <= config.max_post_bytes
    /\ \E d \in Devices : Processed(d) # {}

\* ------------------------------------------------------------------------
\* C13.  Omitted when absent: no emitted record carries an optional field
\* as null or commands or protocols as an empty list, and a peer record
\* fetched without a type is emitted without a type.
\* ------------------------------------------------------------------------
ListKeys == {"commands", "protocols"}

C13_OmittedWhenAbsent ==
    \A d \in Devices : \A i \in Processed(d) :
        LET f == Fetched(d, i)
            e == Emitted(d, i)
        IN /\ \A k \in DOMAIN e \ ListKeys : e[k] # JsonNull
           /\ \A k \in DOMAIN e \cap ListKeys : e[k] # <<>>
           /\ \A n \in 1..Len(WireCommands(e)) :
                 \A k \in DOMAIN WireCommands(e)[n] \ {"args"} :
                     WireCommands(e)[n][k] # JsonNull
           /\ (f["id"] # d /\ "type" \notin DOMAIN f) => "type" \notin DOMAIN e

\* ------------------------------------------------------------------------
\* C14.  Flow-id round trip: a command fetched with a "flowID" is emitted,
\* when it is kept, with the same "flowID" (on a peer record in its fetched
\* position, on the own record when it is re-queued), and it classifies as
\* it does without the flow id (here: under a budget that never truncates).
\* ------------------------------------------------------------------------
WithoutFlowId(c) == [k \in DOMAIN c \ {"flowID", "flowId"} |-> c[k]]

HasFlowID(c, id) == "flowID" \in DOMAIN c /\ c["flowID"] = id

C14_FlowIdRoundTrip ==
    \A d \in Devices : \A i \in Processed(d) :
        LET f == WireCommands(Fetched(d, i))
            e == WireCommands(Emitted(d, i))
        IN NoTruncation
           => \A k \in 1..Len(f) :
                 "flowID" \in DOMAIN f[k]
                 => /\ as_command(DeserializeCommand(f[k])) =
                          as_command(DeserializeCommand(WithoutFlowId(f[k])))
                    /\ Fetched(d, i)["id"] # d
                          => HasFlowID(e[k], f[k]["flowID"])
                    /\ (Fetched(d, i)["id"] = d /\ results[d][k] # "ok")
                          => \E n \in 1..Len(e) :
                                /\ WithoutFlowId(e[n]) = WithoutFlowId(f[k])
                                /\ HasFlowID(e[n], f[k]["flowID"])

\* ------------------------------------------------------------------------
\* C15.  Truncation bound: the command list of every emitted record, own
\* or peer, serializes to at most the memcache budget or is empty, its
\* commands are commands of the untruncated list in their order there, and
\* it is not empty when the untruncated list exceeded the budget and the
\* budget is at least the size of one minimal command entry.
\* ------------------------------------------------------------------------
MinimalEntry == [name |-> "", args |-> <<>>, flow_id |-> None]

RECURSIVE IsSubsequence(_, _)
IsSubsequence(s, t) ==
    IF s = <<>> THEN TRUE
    ELSE IF t = <<>> THEN FALSE
    ELSE IF s[1] = t[1] THEN IsSubsequence(Tail(s), Tail(t))
    ELSE IsSubsequence(s, Tail(t))

Budget == memcache_max_record_payload_size(config)

Retained(d, i) == DeserializeClient(Emitted(d, i)).commands

WithinBudget(d, i) ==
    /\ Retained(d, i) = <<>>
          \/ compute_serialized_size(Retained(d, i)) <= Budget
    /\ IsSubsequence(Retained(d, i), merged[d][i])

C15_TruncationBound ==
    \A d \in Devices : \A i \in Processed(d) :
        /\ WithinBudget(d, i)
        /\ ( /\ compute_serialized_size(merged[d][i]) > Budget
             /\ Budget >= compute_serialized_size(<<MinimalEntry>>) )
           => Retained(d, i) # <<>>

\* C15 as amended: the list is not empty when the untruncated list is not
\* empty and each of its entries alone fits the budget; a budget of one
\* minimal entry is not enough, a list whose entries are all larger than
\* the budget is emptied.
C15_TruncationBoundAmended ==
    \A d \in Devices : \A i \in Processed(d) :
        /\ WithinBudget(d, i)
        /\ ( /\ merged[d][i] # <<>>
             /\ \A k \in 1..Len(merged[d][i]) :
                   compute_serialized_size(<<merged[d][i][k]>>) <= Budget )
           => Retained(d, i) # <<>>

\* A list that exceeded the budget was truncated to some of its entries.
C15_Witness ==
    \E d \in Devices : \E i \in Processed(d) :
        /\ compute_serialized_size(merged[d][i]) > Budget
        /\ \A k \in 1..Len(merged[d][i]) :
              compute_serialized_size(<<merged[d][i][k]>>) <= Budget
        /\ Retained(d, i) # <<>>
        /\ Len(Retained(d, i)) < Len(merged[d][i])

\* ------------------------------------------------------------------------
\* C16.  Cursor ordering: the step of sync that invokes the upload passes
\* it, as the collection's last-modified cursor, the timestamp of the fetch
\* of this cycle, whatever the cursor of the global state was.
\* ------------------------------------------------------------------------
InvokesUpload(d) == upload_call[d] = None /\ upload_call'[d] # None

C16_CursorOrdering ==
    [][\A d \in Devices :
          InvokesUpload(d)
          => upload_call'[d][1].last_modified = inbound[d].timestamp]_vars

\* A cycle has uploaded with the timestamp of a fetch that followed an
\* upload of an earlier cycle.
C16_Witness ==
    \E d \in Devices :
        /\ upload_call[d] # None
        /\ upload_call[d][1].last_modified > 1
        /\ result[d] = "Ok"

\* ------------------------------------------------------------------------
\* C17.  The upload result does not change the outcome: a cycle whose
\* upload returned an UploadInfo returns Ok, whatever ids it reports failed.
\* ------------------------------------------------------------------------
C17_UploadOutcome ==
    \A d \in Devices : upload_info[d] # NoUploadInfo => result[d] = "Ok"

\* A cycle returned Ok although every record, the own one included, was
\* reported failed.
C17_Witness ==
    \E d \in Devices :
        /\ result[d] = "Ok"
        /\ d \in upload_info[d].failed_ids
        /\ upload_info[d].successful_ids = {}

\* ------------------------------------------------------------------------
\* C18.  The emitted own record is built from the Settings: id, name, type
\* and fxaDeviceId are those of the Settings, protocols is ["1.5"], and no
\* other field than the commands is on it, whatever the fetched own record
\* carried.
\* ------------------------------------------------------------------------
LegacyKeys ==
    {"version", "formfactor", "os", "appPackage", "application", "device"}

C19_BatchShape ==
    [][\A d \in Devices :
          /\ \A i \in Processed(d) : Emitted(d, i)["id"] = Fetched(d, i)["id"]
          /\ InvokesUpload(d)
             => LET changes == upload_call'[d][1].changes
                IN /\ Len(changes) = Len(inbound[d].changes)
                   /\ \A i \in 1..Len(changes) :
                         changes[i]["id"] = inbound[d].changes[i]["id"]
      ]_vars

\* A batch of two records has been uploaded.
C19_Witness ==
    \E d \in Devices :
        /\ upload_call[d] # None
        /\ Len(upload_call[d][1].changes) = 2
        /\ result[d] = "Ok"

\* ------------------------------------------------------------------------
\* C20.  No loss of commands addressed to the local device: under a budget
\* that never truncates, a command (its name and arguments) leaves the own
\* record of a device in the collection only by a step in which the cycle
\* of that device returns Ok and its upload stored the own record, and the
\* command classified and was applied with success in that cycle.
\* ------------------------------------------------------------------------
\* The commands, without their flow ids, of the record of d in coll.
OwnCommands(coll, d) ==
    LET at == {i \in 1..Len(coll) : coll[i]["id"] = d}
    IN IF at = {} THEN <<>>
       ELSE MapSeq(WireCommands(coll[CHOOSE i \in at : TRUE]), WithoutFlowId)

C20_NoLoss ==
    [][\A d \in Devices : \A w \in Range(OwnCommands(server, d)) :
          ( /\ NoTruncation
            /\ Occurrences(OwnCommands(server', d), w)
                  < Occurrences(OwnCommands(server, d), w) )
          => /\ pc[d] = "loop"
             /\ result'[d] = "Ok"
             /\ d \in upload_info'[d].successful_ids
             /\ \E k \in 1..Len(results[d]) :
                   /\ results[d][k] = "ok"
                   /\ OwnCommands(inbound[d].changes, d)[k] = w
                   /\ as_command(DeserializeCommand(w)) # None
      ]_vars

\* A cycle applied a command of the own record with success, its upload
\* failed, and the command is on the own record in the collection.
C20_Witness ==
    \E d \in Devices :
        /\ NoTruncation
        /\ result[d] = "UploadError"
        /\ \E k \in 1..Len(results[d]) :
              /\ results[d][k] = "ok"
              /\ Len(OwnCommands(server, d)) = Len(results[d])
              /\ as_command(DeserializeCommand(OwnCommands(server, d)[k]))
                    # None

====
